---- MODULE Spec2Model ----
(***************************************************************************)
(* A model of the business-analytics backend of src/main.py: the request   *)
(* schemas of src/schemas.py, the four POST handlers (ingest, forecast,    *)
(* recommend, chat), the GET endpoints, and the document store the         *)
(* handlers write to through create_document.                              *)
(*                                                                         *)
(* Handlers are plain "def" endpoints, which the framework runs on a pool  *)
(* of worker threads: a request is modelled as the steps validation,       *)
(* each create_document call, and the computation of the response, and the *)
(* steps of the requests of different workers interleave.                  *)
(***************************************************************************)
EXTENDS Integers, Sequences, FiniteSets, TLC

(***************************************************************************)
(* IEEE-754 binary64 arithmetic, as far as forecast() uses it.             *)
(* A natural number is a sequence of limbs in base 2^LimbBits, least       *)
(* significant first, with no leading zero limb (zero is the empty         *)
(* sequence); a double is m * 2^e with m of at most Precision bits.        *)
(***************************************************************************)
Precision == 53
LimbBits  == 15
Base      == 2 ^ LimbBits

Limb(a, j) == IF j >= 1 /\ j <= Len(a) THEN a[j] ELSE 0

RECURSIVE Norm(_)
Norm(a) == IF a # <<>> /\ a[Len(a)] = 0 THEN Norm(SubSeq(a, 1, Len(a) - 1)) ELSE a

BigOfNat(n) == Norm(<<n % Base, (n \div Base) % Base, n \div (Base * Base)>>)

RECURSIVE NatOfBig(_)
NatOfBig(a) == IF a = <<>> THEN 0 ELSE a[1] + Base * NatOfBig(Tail(a))

RECURSIVE AddCarry(_, _, _, _)
AddCarry(a, b, j, carry) ==
    IF j > Len(a) /\ j > Len(b)
    THEN IF carry = 0 THEN <<>> ELSE <<carry>>
    ELSE LET sum == Limb(a, j) + Limb(b, j) + carry
         IN  <<sum % Base>> \o AddCarry(a, b, j + 1, sum \div Base)

AddBig(a, b) == AddCarry(a, b, 1, 0)

\* a * k for 0 <= k < Base.
RECURSIVE MulCarry(_, _, _, _)
MulCarry(a, k, j, carry) ==
    IF j > Len(a)
    THEN IF carry = 0 THEN <<>> ELSE <<carry>>
    ELSE LET prod == a[j] * k + carry
         IN  <<prod % Base>> \o MulCarry(a, k, j + 1, prod \div Base)

MulSmall(a, k) == Norm(MulCarry(a, k, 1, 0))

ZeroLimbs(n) == [j \in 1..n |-> 0]

\* a * 2^s
ShiftLeft(a, s) ==
    IF a = <<>> THEN <<>>
    ELSE ZeroLimbs(s \div LimbBits) \o MulSmall(a, 2 ^ (s % LimbBits))

RECURSIVE MulBig(_, _)
MulBig(a, b) ==
    IF b = <<>> THEN <<>>
    ELSE AddBig(MulSmall(a, b[1]), ShiftLeft(MulBig(a, Tail(b)), LimbBits))

\* Bit p of a (bit 0 is the least significant), and the number of bits of a.
BitOf(a, p) == (Limb(a, p \div LimbBits + 1) \div 2 ^ (p % LimbBits)) % 2

BitLen(a) ==
    IF a = <<>> THEN 0
    ELSE LET top == a[Len(a)]
         IN  LimbBits * (Len(a) - 1) + (CHOOSE n \in 1..LimbBits : 2 ^ (n - 1) <= top /\ top < 2 ^ n)

\* floor(a / 2^s)
ShiftRight(a, s) ==
    LET drop == s \div LimbBits
        r    == s % LimbBits
    IN  Norm([j \in 1..(Len(a) - drop) |->
                 Limb(a, j + drop) \div 2 ^ r
                 + (Limb(a, j + drop + 1) % 2 ^ r) * 2 ^ (LimbBits - r)])

\* a / 2^s rounded to the nearest integer, ties to even.
RoundShift(a, s) ==
    IF s <= 0 THEN ShiftLeft(a, 0 - s)
    ELSE LET q      == ShiftRight(a, s)
             half   == BitOf(a, s - 1)
             sticky == \E p \in 0..(s - 2) : BitOf(a, p) = 1
             odd    == BitOf(q, 0) = 1
         IN  IF half = 1 /\ (sticky \/ odd) THEN AddBig(q, <<1>>) ELSE q

\* The double nearest to a * 2^e (round to nearest, ties to even).
RoundToDouble(a, e) ==
    IF BitLen(a) <= Precision THEN [m |-> a, e |-> e]
    ELSE LET s == BitLen(a) - Precision
         IN  [m |-> RoundShift(a, s), e |-> e + s]

FloatOfInt(n) == [m |-> BigOfNat(n), e |-> 0]

FMul(x, y) == RoundToDouble(MulBig(x.m, y.m), x.e + y.e)

FAdd(x, y) ==
    LET e == IF x.e < y.e THEN x.e ELSE y.e
    IN  RoundToDouble(AddBig(ShiftLeft(x.m, x.e - e), ShiftLeft(y.m, y.e - e)), e)

\* floor(a / k) and a mod k for 0 < k < Base, by long division from the top limb.
RECURSIVE DivSmall(_, _)
DivSmall(a, k) ==
    IF a = <<>> THEN [q |-> <<>>, r |-> 0]
    ELSE LET hi  == DivSmall(Tail(a), k)
             num == hi.r * Base + a[1]
         IN  [q |-> Norm(<<num \div k>> \o hi.q), r |-> num % k]

\* The double nearest to num / den (0 < num < den < Base): the value of a
\* decimal literal. The quotient is scaled to Precision bits, then rounded.
NearestDouble(num, den) ==
    LET Quot(sh) == DivSmall(ShiftLeft(BigOfNat(num), sh), den)
        s        == CHOOSE sh \in 0..(2 * Precision) : BitLen(Quot(sh).q) = Precision
        d        == Quot(s)
        up       == 2 * d.r > den \/ (2 * d.r = den /\ BitOf(d.q, 0) = 1)
    IN  RoundToDouble(IF up THEN AddBig(d.q, <<1>>) ELSE d.q, 0 - s)

\* Python's round(x, 2): x rounded to two decimals on its exact binary value,
\* ties to even. The result is the double nearest to c/100; it is held as the
\* number c of hundredths, which names that double.
PyRound2(x) == NatOfBig(RoundShift(MulSmall(x.m, 100), 0 - x.e))

(***************************************************************************)
(* Calendar dates. A date is a record [y, m, d]; datetime + timedelta goes *)
(* through the proleptic Gregorian ordinal (day 1 is 0001-01-01), as       *)
(* Python's datetime does.                                                 *)
(***************************************************************************)
IsLeap(y) == y % 4 = 0 /\ (y % 100 # 0 \/ y % 400 = 0)

DaysInMonth(y, m) ==
    IF m = 2 THEN (IF IsLeap(y) THEN 29 ELSE 28)
    ELSE IF m \in {4, 6, 9, 11} THEN 30 ELSE 31

\* Days of a common year before the first of month m (m = 13: the whole year).
DaysBeforeMonthTable == <<0, 31, 59, 90, 120, 151, 181, 212, 243, 273, 304, 334, 365>>

DaysBeforeMonth(y, m) == DaysBeforeMonthTable[m] + (IF m > 2 /\ IsLeap(y) THEN 1 ELSE 0)

DaysBeforeYear(y) ==
    (y - 1) * 365 + (y - 1) \div 4 - (y - 1) \div 100 + (y - 1) \div 400

Ymd2Ord(date) == DaysBeforeYear(date.y) + DaysBeforeMonth(date.y, date.m) + date.d

Ord2Ymd(ordinal) ==
    LET n0   == ordinal - 1
        n400 == n0 \div 146097
        r400 == n0 % 146097
        n100 == r400 \div 36524
        r100 == r400 % 36524
        n4   == r100 \div 1461
        r4   == r100 % 1461
        n1   == r4 \div 365
        n    == r4 % 365
        year == n400 * 400 + 1 + n100 * 100 + n4 * 4 + n1
        leap == n1 = 3 /\ (n4 # 24 \/ n100 = 3)
        mEst == (n + 50) \div 32
        pEst == DaysBeforeMonthTable[mEst] + (IF mEst > 2 /\ leap THEN 1 ELSE 0)
        month == IF pEst > n THEN mEst - 1 ELSE mEst
        preceding == DaysBeforeMonthTable[month] + (IF month > 2 /\ leap THEN 1 ELSE 0)
    IN  IF n1 = 4 \/ n100 = 4
        THEN [y |-> year - 1, m |-> 12, d |-> 31]
        ELSE [y |-> year, m |-> month, d |-> n - preceding + 1]

\* today + timedelta(days = n), then .date()
AddDays(date, n) == Ord2Ymd(Ymd2Ord(date) + n)

\* "%0<width>d" % n
ZeroPad(n, width) ==
    LET digits == ToString(n)
    IN  IF Len(digits) >= width THEN digits
        ELSE IF width - Len(digits) = 1 THEN "0" \o digits
        ELSE IF width - Len(digits) = 2 THEN "00" \o digits
        ELSE "000" \o digits

\* date.isoformat()
IsoFormat(date) ==
    ZeroPad(date.y, 4) \o "-" \o ZeroPad(date.m, 2) \o "-" \o ZeroPad(date.d, 2)

(***************************************************************************)
(* forecast(): the mock trajectory of lines 99-107.                        *)
(***************************************************************************)
MinHorizon == 1
MaxHorizon == 365
DefaultHorizon == 30

base == FloatOfInt(100)

\* The literal 0.01
GrowthRate == NearestDouble(1, 100)

\* The value cut to two decimals instead of rounded.
ForecastValueTruncated(i) ==
    LET x == FMul(base, FAdd(FloatOfInt(1), FMul(GrowthRate, FloatOfInt(i))))
    IN  NatOfBig(ShiftRight(MulSmall(x.m, 100), 0 - x.e))

\* round(base * (1 + 0.01 * i), 2), in hundredths
ForecastValue(i) ==
    PyRound2(FMul(base, FAdd(FloatOfInt(1), FMul(GrowthRate, FloatOfInt(i)))))

\* ForecastValue over the indices a validated horizon allows, computed once.
ForecastValues == [i \in 0..(MaxHorizon - 1) |-> ForecastValue(i)]

\* The series started today instead of tomorrow.
ForecastPointFromToday(now, i) ==
    [date |-> IsoFormat(AddDays(now, i)), value |-> ForecastValues[i]]

ForecastPoint(now, i) ==
    [date  |-> IsoFormat(AddDays(now, i + 1)),
     value |-> IF i \in DOMAIN ForecastValues THEN ForecastValues[i] ELSE ForecastValue(i)]

\* for i in range(horizon): points.append(...)
ForecastSeries(now, horizon) ==
    [k \in 1..horizon |-> ForecastPoint(now, k - 1)]

(***************************************************************************)
(* Request schemas (src/schemas.py) and their validation. An Optional      *)
(* value is None or Some(v); a request body is a record that holds the     *)
(* fields the client sent; a dict is the set of its <<key, value>> pairs.  *)
(***************************************************************************)
None == <<>>
Some(v) == <<v>>

Has(body, field) == field \in DOMAIN body

\* Field(default): the field's value, or its default when the client left it out.
FieldOr(body, field, default) == IF Has(body, field) THEN body[field] ELSE default

DatasetIngestValid(body) == FieldOr(body, "rows", 0) >= 0

DatasetIngest(body) ==
    [name   |-> body.name,
     source |-> body.source,
     fields |-> FieldOr(body, "fields", <<>>),
     rows   |-> FieldOr(body, "rows", 0),
     notes  |-> FieldOr(body, "notes", None)]

\* The field without its upper bound.
ForecastRequestValidNoUpperBound(body) ==
    FieldOr(body, "horizon_days", DefaultHorizon) >= MinHorizon

\* horizon_days: int = Field(30, ge=1, le=365)
ForecastRequestValid(body) ==
    LET h == FieldOr(body, "horizon_days", DefaultHorizon)
    IN  h >= MinHorizon /\ h <= MaxHorizon

ForecastRequest(body) ==
    [metric       |-> body.metric,
     horizon_days |-> FieldOr(body, "horizon_days", DefaultHorizon),
     context      |-> FieldOr(body, "context", Some({}))]

RecommendationRequest(body) ==
    [objective   |-> body.objective,
     constraints |-> FieldOr(body, "constraints", Some(<<>>)),
     context     |-> FieldOr(body, "context", Some({}))]

ChatRequest(body) ==
    [message    |-> body.message,
     session_id |-> FieldOr(body, "session_id", None)]

ChatMessage(role, content, session_id) ==
    [role |-> role, content |-> content, session_id |-> session_id]

PostKinds == {"ingest", "forecast", "recommend", "chat"}
GetKinds  == {"root", "hello", "test", "schema"}

\* The framework validates the body against the handler's parameter type
\* before it calls the handler.
Valid(req) ==
    CASE req.kind = "ingest"   -> DatasetIngestValid(req.body)
      [] req.kind = "forecast" -> ForecastRequestValid(req.body)
      [] OTHER                 -> TRUE

Parsed(req) ==
    CASE req.kind = "ingest"    -> DatasetIngest(req.body)
      [] req.kind = "forecast"  -> ForecastRequest(req.body)
      [] req.kind = "recommend" -> RecommendationRequest(req.body)
      [] req.kind = "chat"      -> ChatRequest(req.body)
      [] OTHER                  -> req.body

(***************************************************************************)
(* The state.                                                              *)
(*   today         the current UTC calendar date                           *)
(*   ticks         how many midnights have passed since the start          *)
(*   dbConfigured  the database handle db is set (DATABASE_URL and         *)
(*                 DATABASE_NAME were given and the connection was made)   *)
(*   store         the document store: per collection, the documents in    *)
(*                 the order they were inserted; rid (the number of the    *)
(*                 request that inserted it) is bookkeeping of the model   *)
(*   workers       per worker thread, the request it handles: its          *)
(*                 position pc, the validated payload, the locals doc_id   *)
(*                 and step, the create_document calls it made so far      *)
(*                 (attempted) and, once done, its response                *)
(*   nextRid       the number of the next request                          *)
(***************************************************************************)
VARIABLES today, ticks, dbConfigured, store, workers, nextRid

vars == <<today, ticks, dbConfigured, store, workers, nextRid>>

Workers == {"w1", "w2"}

Collections == {"datasetingest", "forecastrequest", "recommendationrequest", "chatmessage"}

MaxRequests == 2
MaxTicks == 1
ForecastRuns == 1

EmptyBody == [empty |-> TRUE]
NoResponse == [code |-> 0]

IdleWorker ==
    [pc |-> "idle", rid |-> 0, kind |-> "none", body |-> EmptyBody, payload |-> EmptyBody,
     step |-> 0, today |-> None, attempted |-> <<>>, resp |-> NoResponse]

(***************************************************************************)
(* The document store behind create_document(collection, data): insert one *)
(* document into the named collection and return its identifier, or fail.  *)
(* A call that fails raises; "refused" has written nothing, "timeout" has  *)
(* written the document and lost the reply. Without a database handle      *)
(* every call raises.                                                      *)
(***************************************************************************)
CreateDocumentOutcomes ==
    IF dbConfigured THEN {"ok", "refused", "timeout"} ELSE {"unavailable"}

Raises(outcome) == outcome # "ok"

Writes(outcome) == outcome \in {"ok", "timeout"}

RECURSIVE SumLen(_, _)
SumLen(st, cs) ==
    IF cs = {} THEN 0
    ELSE LET c == CHOOSE c \in cs : TRUE IN Len(st[c]) + SumLen(st, cs \ {c})

\* A fresh identifier.
NextDocId == SumLen(store, Collections) + 1

create_document(collection, data, rid, outcome) ==
    IF Writes(outcome)
    THEN [store EXCEPT ![collection] = Append(@, [id |-> NextDocId, doc |-> data, rid |-> rid])]
    ELSE store

\* An except clause that names only the missing database handle.
CatchesOnlyUnavailable(outcome) == outcome = "unavailable"

\* "except Exception": the handlers' except clauses catch every failure.
Catches(outcome) == TRUE

Ok(body) == [code |-> 200, body |-> body]
ValidationError == [code |-> 422, body |-> [detail |-> "validation error"]]
InternalServerError == [code |-> 500, body |-> [detail |-> "Internal Server Error"]]

(***************************************************************************)
(* The responses the handlers build.                                       *)
(***************************************************************************)
\* A message that counts the datasets recorded so far.
IngestResponseCounting(payload, doc_id) ==
    [status  |-> "ok",
     id      |-> doc_id,
     name    |-> payload.name,
     source  |-> payload.source,
     fields  |-> payload.fields,
     rows    |-> payload.rows,
     message |-> "Dataset ingest recorded: " \o ToString(Len(store["datasetingest"])) \o " so far"]

IngestResponse(payload, doc_id) ==
    [status  |-> "ok",
     id      |-> doc_id,
     name    |-> payload.name,
     source  |-> payload.source,
     fields  |-> payload.fields,
     rows    |-> payload.rows,
     message |-> "Dataset ingest recorded"]

ForecastResponse(payload, now) ==
    [status       |-> "ok",
     metric       |-> payload.metric,
     horizon_days |-> payload.horizon_days,
     series       |-> ForecastSeries(now, payload.horizon_days),
     note         |-> "Mock forecast. Replace with your ML model later."]

\* Suggestions chosen by the objective.
SuggestionsByObjective(payload) ==
    IF payload.objective = "cut_costs"
    THEN <<"Renegotiate supplier contracts",
           "Optimize pricing tiers based on elasticity",
           "Prioritize retention with targeted win-back emails">>
    ELSE <<"Increase top-of-funnel campaigns by 10% for A/B test",
           "Optimize pricing tiers based on elasticity",
           "Prioritize retention with targeted win-back emails">>

Suggestions(payload) ==
    <<"Increase top-of-funnel campaigns by 10% for A/B test",
      "Optimize pricing tiers based on elasticity",
      "Prioritize retention with targeted win-back emails">>

\* payload.constraints or []
OrEmptyList(optional) == IF optional = None THEN <<>> ELSE optional[1]

RecommendResponse(payload) ==
    [status      |-> "ok",
     objective   |-> payload.objective,
     suggestions |-> Suggestions(payload),
     constraints |-> OrEmptyList(payload.constraints)]

\* A reply that greets a known session.
ChatReplyWithSession(req) ==
    IF req.session_id = None
    THEN "You said: " \o req.message \o ". For forecasting, try POST /api/forecast."
    ELSE "Welcome back. You said: " \o req.message
         \o ". For forecasting, try POST /api/forecast."

\* f"You said: {req.message}. For forecasting, try POST /api/forecast."
ChatReply(req) ==
    "You said: " \o req.message \o ". For forecasting, try POST /api/forecast."

\* user_msg and assistant_reply, in the order the try block inserts them.
ChatDocs(req) ==
    <<ChatMessage("user", req.message, req.session_id),
      ChatMessage("assistant", ChatReply(req), req.session_id)>>

\* Each create_document call of chat() in a try block of its own.
AfterRaiseContinue(docs, step) == step + 1

\* Where chat() goes on after its step-th create_document call raised: both
\* calls are in one try block, so the rest of the block is skipped.
AfterRaise(docs, step) == Len(docs) + 1

ChatResponse(req, assistant_reply) ==
    [reply |-> assistant_reply.content, session_id |-> req.session_id]

SchemaInfo ==
    [models |->
       [datasetingest         |-> <<"name", "source", "fields", "rows", "notes">>,
        forecastrequest       |-> <<"metric", "horizon_days", "context">>,
        recommendationrequest |-> <<"objective", "constraints", "context">>,
        chatmessage           |-> <<"role", "content", "session_id">>]]

\* db.list_collection_names(): a collection exists once a document is in it.
ListCollectionNames == {c \in Collections : store[c] # <<>>}

TestDatabaseResponse(listing) ==
    [backend           |-> "Running",
     database          |-> IF ~dbConfigured THEN "Available but not initialized"
                           ELSE IF listing = "ok" THEN "Connected & Working"
                           ELSE "Connected but Error",
     database_url      |-> IF dbConfigured THEN "Set" ELSE "Not Set",
     database_name     |-> IF dbConfigured THEN "Set" ELSE "Not Set",
     connection_status |-> IF dbConfigured THEN "Connected" ELSE "Not Connected",
     collections       |-> IF dbConfigured /\ listing = "ok" THEN ListCollectionNames ELSE {}]

(***************************************************************************)
(* The clock.                                                              *)
(***************************************************************************)
Tomorrow(date) ==
    IF date.d < DaysInMonth(date.y, date.m) THEN [date EXCEPT !.d = @ + 1]
    ELSE IF date.m < 12 THEN [y |-> date.y, m |-> date.m + 1, d |-> 1]
    ELSE [y |-> date.y + 1, m |-> 1, d |-> 1]

Date(y, m, d) == [y |-> y, m |-> m, d |-> d]

StartDates ==
    {Date(2024, 1, 1), Date(2023, 12, 31), Date(2024, 2, 28), Date(2099, 12, 30)}

Midnight ==
    /\ ticks < MaxTicks
    /\ ticks' = ticks + 1
    /\ today' = Tomorrow(today)
    /\ UNCHANGED <<dbConfigured, store, workers, nextRid>>

(***************************************************************************)
(* The requests the clients send.                                          *)
(***************************************************************************)
Request(kind, body) == [kind |-> kind, body |-> body]

Requests ==
    {Request("ingest", [name |-> "sales", source |-> "csv", fields |-> <<"sku", "qty">>, rows |-> 5]),
     Request("ingest", [name |-> "sales", source |-> "csv", rows |-> 0 - 1]),
     Request("forecast", [metric |-> "revenue", horizon_days |-> 2]),
     Request("recommend", [objective |-> "increase_conversion", constraints |-> None]),
     Request("recommend", [objective |-> "cut_costs", constraints |-> Some(<<"budget">>),
                           context |-> Some({<<"region", "emea">>})]),
     Request("chat", [message |-> "hi", session_id |-> Some("s1")]),
     Request("chat", [message |-> "hi"]),
     Request("root", EmptyBody),
     Request("hello", EmptyBody),
     Request("test", EmptyBody),
     Request("schema", EmptyBody)}

ForecastHorizons == {0 - 5, 0, 1, 2, 3, 60, 364, 365, 366, 1000}

ForecastRequests ==
    {Request("forecast", [metric |-> "revenue", horizon_days |-> h]) : h \in ForecastHorizons}
    \cup
    {Request("forecast", [metric |-> "revenue"]),
     Request("forecast", [metric |-> "churn", horizon_days |-> 3,
                          context |-> Some({<<"region", "emea">>})]),
     Request("forecast", [metric |-> "churn", horizon_days |-> 365, context |-> None])}

(***************************************************************************)
(* The framework takes a request, validates its body and hands it to the   *)
(* handler on a free worker; an invalid body is answered 422 and the       *)
(* handler is not called.                                                  *)
(***************************************************************************)
Accept(w, req) ==
    /\ workers[w].pc \in {"idle", "done"}
    /\ workers' = [workers EXCEPT ![w] =
          IF Valid(req)
          THEN [IdleWorker EXCEPT !.pc = req.kind, !.rid = nextRid, !.kind = req.kind,
                                  !.body = req.body, !.payload = Parsed(req), !.step = 1]
          ELSE [IdleWorker EXCEPT !.pc = "done", !.rid = nextRid, !.kind = req.kind,
                                  !.body = req.body, !.resp = ValidationError]]
    /\ nextRid' = nextRid + 1
    /\ UNCHANGED <<today, ticks, dbConfigured, store>>

Receive(w, req) == nextRid <= MaxRequests /\ Accept(w, req)

\* forecast() with the collection name of ingest_dataset().
CollectionOfCopied(kind) ==
    CASE kind = "ingest"    -> "datasetingest"
      [] kind = "forecast"  -> "datasetingest"
      [] kind = "recommend" -> "recommendationrequest"
      [] kind = "chat"      -> "chatmessage"

\* The collection each handler names in its create_document call.
CollectionOf(kind) ==
    CASE kind = "ingest"    -> "datasetingest"
      [] kind = "forecast"  -> "forecastrequest"
      [] kind = "recommend" -> "recommendationrequest"
      [] kind = "chat"      -> "chatmessage"

\* The call create_document(collection, data) of worker w, as the handler's
\* bookkeeping sees it.
Call(collection, data, outcome) ==
    [collection |-> collection, doc |-> data, outcome |-> outcome]

\* The worker after its handler returned body, or after an exception that no
\* except clause caught left the handler.
Finished(me, outcome, body) ==
    [me EXCEPT !.pc = "done",
               !.resp = IF Raises(outcome) /\ ~Catches(outcome)
                        THEN InternalServerError ELSE Ok(body)]

ingest_dataset(w) ==
    /\ workers[w].pc = "ingest"
    /\ \E outcome \in CreateDocumentOutcomes :
         LET me     == workers[w]
             doc_id == IF Raises(outcome) THEN None ELSE Some(NextDocId)
             called == [me EXCEPT !.attempted =
                           Append(@, Call(CollectionOf("ingest"), me.payload, outcome))]
         IN  /\ store' = create_document(CollectionOf("ingest"), me.payload, me.rid, outcome)
             /\ workers' = [workers EXCEPT ![w] =
                   Finished(called, outcome, IngestResponse(me.payload, doc_id))]
    /\ UNCHANGED <<today, ticks, dbConfigured, nextRid>>

\* forecast(), lines 94-97: the request is stored.
forecast_store(w) ==
    /\ workers[w].pc = "forecast"
    /\ \E outcome \in CreateDocumentOutcomes :
         LET me     == workers[w]
             called == [me EXCEPT !.attempted =
                           Append(@, Call(CollectionOf("forecast"), me.payload, outcome))]
         IN  /\ store' = create_document(CollectionOf("forecast"), me.payload, me.rid, outcome)
             /\ workers' = [workers EXCEPT ![w] =
                   IF Raises(outcome) /\ ~Catches(outcome)
                   THEN Finished(called, outcome, EmptyBody)
                   ELSE [called EXCEPT !.pc = "forecast_series"]]
    /\ UNCHANGED <<today, ticks, dbConfigured, nextRid>>

\* forecast(), lines 99-115: the clock is read and the series is built.
forecast_series(w) ==
    /\ workers[w].pc = "forecast_series"
    /\ LET me == workers[w]
       IN  workers' = [workers EXCEPT ![w] =
              [me EXCEPT !.pc = "done", !.today = Some(today),
                         !.resp = Ok(ForecastResponse(me.payload, today))]]
    /\ UNCHANGED <<today, ticks, dbConfigured, store, nextRid>>

recommend(w) ==
    /\ workers[w].pc = "recommend"
    /\ \E outcome \in CreateDocumentOutcomes :
         LET me     == workers[w]
             called == [me EXCEPT !.attempted =
                           Append(@, Call(CollectionOf("recommend"), me.payload, outcome))]
         IN  /\ store' = create_document(CollectionOf("recommend"), me.payload, me.rid, outcome)
             /\ workers' = [workers EXCEPT ![w] =
                   Finished(called, outcome, RecommendResponse(me.payload))]
    /\ UNCHANGED <<today, ticks, dbConfigured, nextRid>>

\* chat(): one create_document call of the try block, and the return once the
\* block is left.
chat(w) ==
    /\ workers[w].pc = "chat"
    /\ \E outcome \in CreateDocumentOutcomes :
         LET me     == workers[w]
             docs   == ChatDocs(me.payload)
             doc    == docs[me.step]
             next   == IF Raises(outcome) THEN AfterRaise(docs, me.step) ELSE me.step + 1
             called == [me EXCEPT !.attempted = Append(@, Call(CollectionOf("chat"), doc, outcome)),
                                  !.step = next]
         IN  /\ store' = create_document(CollectionOf("chat"), doc, me.rid, outcome)
             /\ workers' = [workers EXCEPT ![w] =
                   IF Raises(outcome) /\ ~Catches(outcome)
                   THEN Finished(called, outcome, EmptyBody)
                   ELSE IF next > Len(docs)
                   THEN Finished(called, "ok", ChatResponse(me.payload, docs[2]))
                   ELSE called]
    /\ UNCHANGED <<today, ticks, dbConfigured, nextRid>>

Return(w, kind, body) ==
    /\ workers[w].pc = kind
    /\ workers' = [workers EXCEPT ![w] = [@ EXCEPT !.pc = "done", !.resp = Ok(body)]]
    /\ UNCHANGED <<today, ticks, dbConfigured, store, nextRid>>

read_root(w) == Return(w, "root", [message |-> "Hello from FastAPI Backend!"])

hello(w) == Return(w, "hello", [message |-> "Hello from the backend API!"])

test_database(w) ==
    \E listing \in {"ok", "error"} : Return(w, "test", TestDatabaseResponse(listing))

get_schema_info(w) == Return(w, "schema", SchemaInfo)

InitOn(dates) ==
    /\ today \in dates
    /\ ticks = 0
    /\ dbConfigured \in BOOLEAN
    /\ store = [c \in Collections |-> <<>>]
    /\ workers = [w \in Workers |-> IdleWorker]
    /\ nextRid = 1

Init == InitOn({Date(2023, 12, 31)})

Next ==
    \/ \E w \in Workers, req \in Requests : Receive(w, req)
    \/ \E w \in Workers : ingest_dataset(w)
    \/ \E w \in Workers : forecast_store(w)
    \/ \E w \in Workers : forecast_series(w)
    \/ \E w \in Workers : recommend(w)
    \/ \E w \in Workers : chat(w)
    \/ \E w \in Workers : read_root(w)
    \/ \E w \in Workers : hello(w)
    \/ \E w \in Workers : test_database(w)
    \/ \E w \in Workers : get_schema_info(w)
    \/ Midnight

Spec == Init /\ [][Next]_vars

(***************************************************************************)
(* The forecast handler alone, on one worker, over a wider range of        *)
(* horizons.                                                               *)
(***************************************************************************)
ForecastReceive(req) == nextRid <= ForecastRuns /\ Accept("w1", req)

NextForecast ==
    \/ \E req \in ForecastRequests : ForecastReceive(req)
    \/ forecast_store("w1")
    \/ forecast_series("w1")
    \/ Midnight

InitForecast == InitOn(StartDates)

SpecForecast == InitForecast /\ [][NextForecast]_vars

(***************************************************************************)
(* Properties.                                                             *)
(***************************************************************************)
Done(w) == workers[w].pc = "done"

RequestOf(w) == Request(workers[w].kind, workers[w].body)

\* Worker w has answered a valid request of this kind.
Answered(w, kind) == Done(w) /\ workers[w].kind = kind /\ Valid(RequestOf(w))

WithoutId(body) == [f \in DOMAIN body \ {"id"} |-> body[f]]

\* Two workers have answered the same request (for forecast: on the same day).
SameRequest(v, w) ==
    /\ Done(v) /\ Done(w)
    /\ workers[v].kind = workers[w].kind
    /\ workers[v].kind \in PostKinds
    /\ DOMAIN workers[v].body = DOMAIN workers[w].body
    /\ workers[v].body = workers[w].body
    /\ workers[v].today = workers[w].today

SomeCallRaised(w) == \E k \in 1..Len(workers[w].attempted) : Raises(workers[w].attempted[k].outcome)

AllCallsOk(w) ==
    /\ workers[w].attempted # <<>>
    /\ \A k \in 1..Len(workers[w].attempted) : workers[w].attempted[k].outcome = "ok"

\* C1: a valid request to ingest, forecast, recommend or chat is answered 200
\* (status "ok" where the body has a status) whatever the outcome of its
\* create_document calls; the ingest response's id is null exactly when the call
\* raised; and two equal requests get the same body up to the ingest id even
\* when persistence succeeded for one and failed for the other.
C1_PersistenceFailureInvisible ==
    /\ \A w \in Workers :
         (Done(w) /\ workers[w].kind \in PostKinds /\ Valid(RequestOf(w))) =>
            /\ workers[w].resp.code = 200
            /\ workers[w].kind # "chat" => workers[w].resp.body.status = "ok"
            /\ workers[w].kind = "ingest" =>
                  (workers[w].resp.body.id = None <=> SomeCallRaised(w))
    /\ \A v, w \in Workers :
         (SameRequest(v, w) /\ Valid(RequestOf(v))) =>
            /\ workers[v].resp.code = workers[w].resp.code
            /\ WithoutId(workers[v].resp.body) = WithoutId(workers[w].resp.body)

C1_Witness ==
    \E v, w \in Workers :
       /\ SameRequest(v, w) /\ Valid(RequestOf(v))
       /\ workers[v].kind = "chat"
       /\ AllCallsOk(v) /\ SomeCallRaised(w)
       /\ workers[v].resp = workers[w].resp

\* The dates of a forecast answered by worker w, and the day it read the clock.
SeriesOf(w) == workers[w].resp.body.series

ClockOf(w) == workers[w].today[1]

ForecastAnswered(w) == Answered(w, "forecast") /\ workers[w].resp.code = 200

\* C2: an accepted forecast of horizon h has exactly h points; point i (0-based)
\* is dated the day the handler read the clock plus i+1 days, the calendar day
\* after the one before it, the first being tomorrow; on 2024-01-01 with h = 3 the
\* dates are 2024-01-02, 2024-01-03, 2024-01-04.
C2_SeriesDates ==
    \A w \in Workers :
       ForecastAnswered(w) =>
          LET h == workers[w].payload.horizon_days
              s == SeriesOf(w)
              t == ClockOf(w)
          IN  /\ h \in MinHorizon..MaxHorizon
              /\ Len(s) = h
              /\ AddDays(t, 0) = t
              /\ \A k \in 1..h :
                    /\ AddDays(t, k) = Tomorrow(AddDays(t, k - 1))
                    /\ s[k].date = IsoFormat(AddDays(t, k))
              /\ s[1].date = IsoFormat(Tomorrow(t))
              /\ (t = Date(2024, 1, 1) /\ h = 3) =>
                    [k \in 1..3 |-> s[k].date] = <<"2024-01-02", "2024-01-03", "2024-01-04">>

C2_Witness ==
    /\ \E w \in Workers :
          /\ ForecastAnswered(w)
          /\ ClockOf(w) = Date(2024, 2, 28)
          /\ Len(SeriesOf(w)) = MaxHorizon
          /\ SeriesOf(w)[1].date = "2024-02-29"
          /\ SeriesOf(w)[2].date = "2024-03-01"
          /\ SeriesOf(w)[MaxHorizon].date = "2025-02-27"

\* C3: point i (0-based) of an accepted forecast has the value 100 + i, to the
\* hundredth, whatever the metric, the context and the outcome of persistence.
C3_SeriesValues ==
    \A w \in Workers :
       ForecastAnswered(w) =>
          \A k \in 1..Len(SeriesOf(w)) : SeriesOf(w)[k].value = (100 + (k - 1)) * 100

C3_Witness ==
    \E w \in Workers :
       /\ ForecastAnswered(w)
       /\ workers[w].payload.metric = "churn"
       /\ SomeCallRaised(w)
       /\ Len(SeriesOf(w)) = MaxHorizon
       /\ SeriesOf(w)[10].value = 10900
       /\ SeriesOf(w)[MaxHorizon].value = 46400

SubmittedHorizon(w) == FieldOr(workers[w].body, "horizon_days", DefaultHorizon)

Clamped(h) == IF h < MinHorizon THEN MinHorizon ELSE IF h > MaxHorizon THEN MaxHorizon ELSE h

\* C5 as stated: every forecast request, whatever integer horizon_days it
\* submits, is handled with the horizon clamped to [1,365].
C5_Clamped ==
    \A w \in Workers :
       (Done(w) /\ workers[w].kind = "forecast") =>
          /\ workers[w].resp.code = 200
          /\ Len(SeriesOf(w)) = Clamped(SubmittedHorizon(w))

\* C5 as amended: the horizon is validated, not clamped. A request whose
\* horizon_days is outside [1,365] is answered 422, the handler is not run and
\* nothing is stored; a request inside (30 when left out) is answered with a
\* series of exactly that many points; the handler never runs with a horizon
\* outside [1,365].
C5_Validated ==
    \A w \in Workers :
       workers[w].kind = "forecast" =>
          LET h == SubmittedHorizon(w)
          IN  /\ workers[w].pc \in {"forecast", "forecast_series"} =>
                    workers[w].payload.horizon_days \in MinHorizon..MaxHorizon
              /\ (Done(w) /\ h \notin MinHorizon..MaxHorizon) =>
                    /\ workers[w].resp = ValidationError
                    /\ workers[w].attempted = <<>>
                    /\ \A k \in 1..Len(store["forecastrequest"]) :
                          store["forecastrequest"][k].rid # workers[w].rid
              /\ (Done(w) /\ h \in MinHorizon..MaxHorizon) =>
                    /\ workers[w].resp.code = 200
                    /\ workers[w].resp.body.horizon_days = h
                    /\ Len(SeriesOf(w)) = h

C5_Witness ==
    \E w \in Workers :
       /\ Done(w) /\ workers[w].kind = "forecast"
       /\ SubmittedHorizon(w) = MaxHorizon + 1
       /\ workers[w].resp = ValidationError

\* C4 as stated: every answered chat request has offered both records to
\* create_document, the user's message and then the assistant's reply, each with
\* the request's session_id, whether or not the first call succeeded.
C4_BothRecordsOffered ==
    \A w \in Workers :
       Answered(w, "chat") =>
          /\ Len(workers[w].attempted) = 2
          /\ workers[w].attempted[1].doc.role = "user"
          /\ workers[w].attempted[2].doc.role = "assistant"
          /\ \A k \in 1..2 :
                workers[w].attempted[k].doc.session_id = workers[w].payload.session_id

TheSuggestions ==
    <<"Increase top-of-funnel campaigns by 10% for A/B test",
      "Optimize pricing tiers based on elasticity",
      "Prioritize retention with targeted win-back emails">>

\* C6: every answered recommend request carries the same three suggestions, in
\* the same order, whatever its objective, constraints and context and whatever
\* the outcome of persistence; objective and constraints come back as sent (no
\* constraints: the empty list).
C6_FixedSuggestions ==
    /\ \A w \in Workers :
          Answered(w, "recommend") =>
             LET sent == workers[w].body
                 got  == workers[w].resp
             IN  /\ got.code = 200
                 /\ got.body.suggestions = TheSuggestions
                 /\ Len(got.body.suggestions) = 3
                 /\ got.body.objective = sent.objective
                 /\ got.body.constraints =
                       (IF Has(sent, "constraints") /\ sent.constraints # None
                        THEN sent.constraints[1] ELSE <<>>)
    /\ \A v, w \in Workers :
          (Answered(v, "recommend") /\ Answered(w, "recommend")) =>
             workers[v].resp.body.suggestions = workers[w].resp.body.suggestions

C6_Witness ==
    \E v, w \in Workers :
       /\ Answered(v, "recommend") /\ Answered(w, "recommend")
       /\ workers[v].body.objective # workers[w].body.objective
       /\ workers[v].resp.body.constraints = <<>>
       /\ workers[w].resp.body.constraints = <<"budget">>
       /\ AllCallsOk(v) /\ SomeCallRaised(w)

\* C7: the reply to a chat request is "You said: " + message + ". For
\* forecasting, try POST /api/forecast.", equal for equal messages whatever the
\* session_id, and the response's session_id is the request's (null when none
\* was sent).
C7_ChatReply ==
    /\ \A w \in Workers :
          Answered(w, "chat") =>
             LET sent == workers[w].body
                 got  == workers[w].resp
             IN  /\ got.code = 200
                 /\ got.body.reply =
                       "You said: " \o sent.message \o ". For forecasting, try POST /api/forecast."
                 /\ got.body.session_id =
                       (IF Has(sent, "session_id") THEN sent.session_id ELSE None)
    /\ \A v, w \in Workers :
          (Answered(v, "chat") /\ Answered(w, "chat")
             /\ workers[v].body.message = workers[w].body.message) =>
                workers[v].resp.body.reply = workers[w].resp.body.reply

C7_Witness ==
    \E v, w \in Workers :
       /\ Answered(v, "chat") /\ Answered(w, "chat")
       /\ workers[v].body.message = workers[w].body.message
       /\ workers[v].resp.body.session_id = None
       /\ workers[w].resp.body.session_id = Some("s1")
       /\ workers[v].resp.body.reply = "You said: hi. For forecasting, try POST /api/forecast."

\* C8 as stated: two equal requests to ingest, forecast (on the same day),
\* recommend or chat get equal responses, whatever was handled before them and
\* whatever the store holds.
C8_Stateless ==
    \A v, w \in Workers : SameRequest(v, w) => workers[v].resp = workers[w].resp

\* The documents of the store that request rid inserted into a collection.
DocsOf(collection, rid) ==
    LET Mine(entry) == entry.rid = rid IN SelectSeq(store[collection], Mine)

\* C8 as amended: two equal requests to ingest, forecast (on the same day),
\* recommend or chat get equal responses up to the id of the ingest response,
\* whatever was handled before them and whatever the store holds; that id is the
\* identifier the store returned for the request's own document (null when the
\* insert raised), so it differs between equal requests.
C8_StatelessUpToId ==
    /\ \A v, w \in Workers :
          SameRequest(v, w) =>
             /\ workers[v].resp.code = workers[w].resp.code
             /\ WithoutId(workers[v].resp.body) = WithoutId(workers[w].resp.body)
    /\ \A w \in Workers :
          Answered(w, "ingest") =>
             LET id   == workers[w].resp.body.id
                 mine == DocsOf("datasetingest", workers[w].rid)
             IN  id # None => (Len(mine) = 1 /\ id = Some(mine[1].id))
    /\ \A v, w \in Workers :
          (v # w /\ Answered(v, "ingest") /\ Answered(w, "ingest")
             /\ workers[v].resp.body.id # None) =>
                workers[v].resp.body.id # workers[w].resp.body.id

C8_Witness ==
    \E v, w \in Workers :
       /\ SameRequest(v, w)
       /\ workers[v].kind = "ingest" /\ Valid(RequestOf(v))
       /\ AllCallsOk(v) /\ AllCallsOk(w)
       /\ workers[v].resp.body.id = Some(1)
       /\ workers[w].resp.body.id = Some(2)

OwnCollection ==
    [ingest    |-> "datasetingest",
     forecast  |-> "forecastrequest",
     recommend |-> "recommendationrequest",
     chat      |-> "chatmessage"]

\* The create_document calls of the request worker w handles are those its
\* handler may make, and the store holds for it what those calls wrote.
C9_Calls(w) ==
    LET me == workers[w]
        a  == me.attempted
        Wrote(call) == Writes(call.outcome)
    IN  /\ me.kind \notin PostKinds => a = <<>>
        /\ ~Valid(RequestOf(w)) => a = <<>>
        /\ me.kind \in {"ingest", "forecast", "recommend"} =>
              /\ Len(a) <= 1
              /\ (me.pc # me.kind /\ Valid(RequestOf(w))) => Len(a) = 1
              /\ \A k \in 1..Len(a) :
                    a[k].collection = OwnCollection[me.kind] /\ a[k].doc = me.payload
        /\ me.kind = "chat" =>
              /\ Len(a) <= 2
              /\ Done(w) => Len(a) >= 1
              /\ \A k \in 1..Len(a) : a[k].collection = "chatmessage"
              /\ Len(a) = 2 => a[1].doc # a[2].doc
        /\ me.rid > 0 =>
              \A c \in Collections :
                 LET In(call) == call.collection = c /\ Writes(call.outcome)
                     written  == SelectSeq(a, In)
                     mine     == DocsOf(c, me.rid)
                 IN  /\ Len(mine) = Len(written)
                     /\ \A k \in 1..Len(mine) : mine[k].doc = written[k].doc

\* A step leaves every stored document where and as it is, and adds at most one.
C9_StepInserts ==
    /\ \A c \in Collections :
          /\ Len(store'[c]) >= Len(store[c])
          /\ SubSeq(store'[c], 1, Len(store[c])) = store[c]
    /\ SumLen(store', Collections) <= SumLen(store, Collections) + 1

\* C9: no step updates or deletes a stored document; an ingest, forecast or
\* recommend request makes exactly one create_document call, with its payload
\* and into its own collection; a chat request calls only for chatmessage, at
\* most once per record; the GET endpoints and rejected requests make no call.
C9_InsertOnly == [](\A w \in Workers : C9_Calls(w)) /\ [][C9_StepInserts]_vars

C9_Witness ==
    \E v, w \in Workers :
       /\ Done(v) /\ workers[v].kind = "test"
       /\ workers[v].resp.body.collections = {"chatmessage"}
       /\ Answered(w, "chat") /\ AllCallsOk(w)
       /\ Len(store["chatmessage"]) = 2
       /\ \A c \in Collections \ {"chatmessage"} : store[c] = <<>>

ChatStore == store["chatmessage"]

CountRole(role) ==
    LET Is(entry) == entry.doc.role = role IN Len(SelectSeq(ChatStore, Is))

\* C10: a chat request offers the user record first and the assistant record
\* only after the user record's call returned; every assistant record in the
\* store is preceded by the user record of the same request, and there are never
\* more assistant records than user records.
C10_UserBeforeAssistant ==
    /\ \A w \in Workers :
          workers[w].kind = "chat" =>
             LET a == workers[w].attempted
             IN  /\ Len(a) >= 1 => a[1].doc.role = "user"
                 /\ Len(a) >= 2 => (a[2].doc.role = "assistant" /\ a[1].outcome = "ok")
    /\ \A p \in 1..Len(ChatStore) :
          ChatStore[p].doc.role = "assistant" =>
             \E q \in 1..(p - 1) :
                /\ ChatStore[q].rid = ChatStore[p].rid
                /\ ChatStore[q].doc.role = "user"
                /\ ChatStore[q].doc.session_id = ChatStore[p].doc.session_id
    /\ CountRole("assistant") <= CountRole("user")

C10_Witness ==
    /\ Len(ChatStore) = 3
    /\ ChatStore[1].doc.role = "user"
    /\ ChatStore[2].doc.role = "user"
    /\ ChatStore[3].doc.role = "assistant"
    /\ ChatStore[3].rid = ChatStore[1].rid
    /\ ChatStore[2].rid # ChatStore[1].rid
    /\ \E w \in Workers : Answered(w, "chat") /\ SomeCallRaised(w) /\ Len(workers[w].attempted) = 1

====
